---- MODULE Spec2Model ----
(***************************************************************************)
(* A model of WebCore's TransferQueue                                      *)
(* (Source/WebCore/platform/graphics/android/TransferQueue.cpp): a ring of *)
(* tile transfer items filled by texture generator threads and drained by  *)
(* the UI thread, one mutex (m_transferQueueItemLocks) and one condition   *)
(* (m_transferQueueItemCond).                                              *)
(*                                                                         *)
(* Every public method holds the mutex from its first to its last line, so *)
(* each one is one action.  The only place where the mutex is released in  *)
(* the middle of a method is the wait of readyForUpdate: a producer's call *)
(* is therefore two actions, one up to the wait and one from the wake-up   *)
(* (after the mutex has been taken again) to the return.                   *)
(*                                                                         *)
(* Condition::signal() is taken to wake exactly one of the threads waiting *)
(* on the condition (none when nobody waits); wait() is taken to return    *)
(* only after a signal.                                                    *)
(***************************************************************************)
EXTENDS Integers, Sequences, FiniteSets

----------------------------------------------------------------------------
(* Sizes of the model. *)

\* #define MINIMAL_SIZE 1
MINIMAL_SIZE == 1
\* Largest ring the model builds (the source's EFFICIENT_SIZE is 6).
MaxQueueSize == 2
\* Number of texture generator (producer) threads.
NumProducers == 2
\* Number of tiles and of tile textures in the tile pool.
NumTiles == 1
NumTextures == 1
\* Longest pure colour queue the model lets grow between two drains.
MaxPureColor == 1
\* How far below zero the model lets m_emptyItemCount run.
MaxOverrun == 1

Producers == 1..NumProducers
Tiles == 1..NumTiles
Textures == 1..NumTextures
UploadTypes == {"CpuUpload", "GpuUpload"}

VARIABLES
    m_transferQueueSize,        \* MINIMAL_SIZE or the larger size
    m_transferQueue,            \* index -> TileTransferData
    m_transferQueueIndex,       \* index of the newest item
    m_emptyItemCount,
    m_hasGLContext,
    m_interruptedByRemovingOp,
    m_currentUploadType,
    m_pureColorTileQueue,       \* sequence of TileTransferData
    m_sharedSurfaceTextureId,   \* TRUE: a texture id is generated (non zero)
    m_sharedSurfaceTexture,     \* TRUE: the sp<SurfaceTexture> is non null
    m_ANW,                      \* TRUE: the sp<ANativeWindow> is non null
    m_fboID,                    \* TRUE: a framebuffer is generated (non zero)
    backTexture,                \* tile -> its back texture, 0 for none
    pc,                         \* producer -> "idle" | "waiting" | "woken"
    req,                        \* producer -> renderInfo->baseTile of its call
    wokenBy,                    \* producer -> the operation whose signal woke it
    crashed,                    \* the process died on a null dereference
    arrival,                    \* the indices of the items in the ring (not
                                \* emptyItem), in the order they were added
    op                          \* the last operation and what it did

queueVars == <<m_transferQueue, m_transferQueueIndex, m_emptyItemCount,
               arrival>>
flagVars == <<m_hasGLContext, m_interruptedByRemovingOp, m_currentUploadType>>
glVars == <<m_sharedSurfaceTextureId, m_sharedSurfaceTexture, m_ANW, m_fboID>>
tileVars == <<backTexture>>
procVars == <<pc, req, wokenBy>>
vars == <<m_transferQueueSize, queueVars, flagVars, m_pureColorTileQueue,
          glVars, tileVars, procVars, crashed, op>>

Indices == 0..(m_transferQueueSize - 1)

\* The arrival order `arr` without the items that are emptyItem in ring q.
StillInRing(arr, q) ==
    LET InRing(i) == q[i].status # "emptyItem" IN SelectSeq(arr, InRing)

----------------------------------------------------------------------------
(* The record of the last operation (observation only). *)

NoOp(name) ==
    [name |-> name,        \* the method
     wake |-> "none",      \* for a call that went through the wait: the
                           \* method whose signal had woken it
     result |-> "none",    \* "true" | "false" (returned), "wait" (blocked),
                           \* "crash"
     fail |-> 0,           \* the tile that got backTextureTransferFail
     signal |-> FALSE,     \* m_transferQueueItemCond.signal() was called
     texImage |-> 0,       \* number of updateTexImage calls
     blits |-> 0,          \* number of ring items uploaded to a texture
     stale |-> 0,          \* number of ring items dropped as obsolete
     pure |-> 0,           \* number of pure colour items applied
     discards |-> 0]       \* number of discardBackTexture calls

\* The record left by the operations whose effects are not observed.
Other == NoOp("other")

----------------------------------------------------------------------------
(* The tiles (Tile.h, TileTexture.h: collaborators of the queue). *)

\* Tile::discardBackTexture(): the tile gives its back texture up.
DiscardBackTexture(back, tile) == [back EXCEPT ![tile] = 0]

\* TileTexture::owner(): the tile the texture is bound to, 0 for none.
Owner(back, texture) ==
    IF \E t \in Tiles : back[t] = texture
    THEN CHOOSE t \in Tiles : back[t] = texture
    ELSE 0

\* A tile takes texture x as its back texture: a tile that had x as back
\* texture loses it.
TileAcquireTexture(t, x) ==
    /\ ~crashed
    /\ backTexture[t] # x
    /\ backTexture' = [u \in Tiles |->
                          IF u = t THEN x
                          ELSE IF backTexture[u] = x THEN 0
                          ELSE backTexture[u]]
    /\ op' = Other
    /\ UNCHANGED <<m_transferQueueSize, queueVars, flagVars,
                   m_pureColorTileQueue, glVars, procVars, crashed>>

\* A tile drops its back texture (it is discarded or the tile is removed).
TileDiscardTexture(t) ==
    /\ ~crashed
    /\ backTexture[t] # 0
    /\ backTexture' = DiscardBackTexture(backTexture, t)
    /\ op' = Other
    /\ UNCHANGED <<m_transferQueueSize, queueVars, flagVars,
                   m_pureColorTileQueue, glVars, procVars, crashed>>

----------------------------------------------------------------------------
(* The condition variable. *)

Waiting(pcs) == {p \in Producers : pcs[p] = "waiting"}

\* m_transferQueueItemCond.signal(): the producer states that can follow.
Signal(pcs) ==
    IF Waiting(pcs) = {} THEN {pcs}
    ELSE {[pcs EXCEPT ![w] = "woken"] : w \in Waiting(pcs)}

\* Who woke whom: the producers that left the wait are woken by `name`.
WokenBy(name, pcs, new) ==
    [p \in Producers |->
        IF pcs[p] = "waiting" /\ new[p] = "woken" THEN name ELSE wokenBy[p]]

----------------------------------------------------------------------------
(* Construction. *)

\* TileTransferData(): an empty item.
EmptyData(type) ==
    [status |-> "emptyItem", uploadType |-> type,
     savedTilePtr |-> 0, savedTileTexturePtr |-> 0]

Init ==
    /\ m_transferQueueSize \in MINIMAL_SIZE..MaxQueueSize
    /\ m_currentUploadType \in UploadTypes
    /\ m_transferQueue =
           [i \in 0..(m_transferQueueSize - 1) |-> EmptyData(m_currentUploadType)]
    /\ m_transferQueueIndex = 0
    /\ m_emptyItemCount = m_transferQueueSize
    /\ m_hasGLContext = TRUE
    /\ m_interruptedByRemovingOp = FALSE
    /\ m_pureColorTileQueue = <<>>
    /\ m_sharedSurfaceTextureId = FALSE
    /\ m_sharedSurfaceTexture = FALSE
    /\ m_ANW = FALSE
    /\ m_fboID = FALSE
    /\ backTexture = [t \in Tiles |-> 0]
    /\ pc = [p \in Producers |-> "idle"]
    /\ req = [p \in Producers |-> 0]
    /\ wokenBy = [p \in Producers |-> "none"]
    /\ crashed = FALSE
    /\ arrival = <<>>
    /\ op = NoOp("TransferQueue")

----------------------------------------------------------------------------
(* GL resources. *)

\* The GL resources the queue holds.
GLResources ==
    [id |-> m_sharedSurfaceTextureId, surface |-> m_sharedSurfaceTexture,
     anw |-> m_ANW, fbo |-> m_fboID]

\* The resources g become the queue's.
SetGLResources(g) ==
    /\ m_sharedSurfaceTextureId' = g.id
    /\ m_sharedSurfaceTexture' = g.surface
    /\ m_ANW' = g.anw
    /\ m_fboID' = g.fbo

\* What initGLResources() makes of the resources g: without a texture id
\* the id, the surface texture and the native window are created; without
\* a framebuffer the framebuffer is.
InitGL(g) ==
    LET h == IF ~g.id THEN [g EXCEPT !.id = TRUE, !.surface = TRUE, !.anw = TRUE]
             ELSE g
    IN IF ~h.fbo THEN [h EXCEPT !.fbo = TRUE] ELSE h

\* What cleanupGLResources() makes of the resources g: the surface texture,
\* the framebuffer and the texture id are released; m_ANW is not touched.
CleanupGL(g) ==
    [g EXCEPT !.surface = FALSE, !.fbo = FALSE, !.id = FALSE]

\* initGLResources(): creates what is missing.
initGLResources ==
    /\ ~crashed
    /\ SetGLResources(InitGL(GLResources))
    /\ op' = Other
    /\ UNCHANGED <<m_transferQueueSize, queueVars, flagVars,
                   m_pureColorTileQueue, tileVars, procVars, crashed>>

\* cleanupGLResources(): the surface texture, the framebuffer and the texture
\* id are released; m_ANW is not touched.
cleanupGLResources == SetGLResources(CleanupGL(GLResources))

----------------------------------------------------------------------------
(* The staleness check. *)

\* checkObsolete without the test for a tile that has no back texture.
checkObsoleteNoNullTexture(data, back) ==
    IF data.savedTilePtr = 0 THEN TRUE
    ELSE back[data.savedTilePtr] # data.savedTileTexturePtr

\* checkObsolete(data), with the tiles' back textures `back`.
checkObsolete(data, back) ==
    IF data.savedTilePtr = 0 THEN TRUE
    ELSE LET baseTileTexture == back[data.savedTilePtr] IN
         baseTileTexture = 0 \/ baseTileTexture # data.savedTileTexturePtr

----------------------------------------------------------------------------
(* Discarding. *)

\* A setPendingDiscard() whose loop marks nothing.
MarkNothingPendingDiscard(q) == q

\* The loop of setPendingDiscard() without its test of the status.
MarkEveryItemPendingDiscard(q) ==
    [i \in DOMAIN q |-> [q[i] EXCEPT !.status = "pendingDiscard"]]

\* The loop of setPendingDiscard(): every pendingBlit item becomes
\* pendingDiscard.
MarkPendingDiscard(q) ==
    [i \in DOMAIN q |->
        IF q[i].status = "pendingBlit"
        THEN [q[i] EXCEPT !.status = "pendingDiscard"]
        ELSE q[i]]

\* A setPendingDiscard() that signals whatever the context was.
DiscardAlwaysSignals(GLContextExisted) == TRUE

\* A setPendingDiscard() that never signals.
DiscardNeverSignals(GLContextExisted) == FALSE

\* Whether setPendingDiscard() signals: only when the GL context existed.
DiscardSignals(GLContextExisted) == GLContextExisted

\* The index of the newest item instead of the one after it.
NewestTransferQueueIndex == m_transferQueueIndex

\* getNextTransferQueueIndex()
getNextTransferQueueIndex == (m_transferQueueIndex + 1) % m_transferQueueSize

\* A cleanupPendingDiscard() that discards the back texture of any tile.
ShouldDiscardAnyTile(back, tile, texture) == tile # 0

\* The test of cleanupPendingDiscard() before tile->discardBackTexture().
ShouldDiscard(back, tile, texture) ==
    tile # 0 /\ texture # 0 /\ Owner(back, texture) = tile

\* The loop of cleanupPendingDiscard() from item `index`, `i` iterations done.
\* st = [q, back, texImage, discards, null]; null: updateTexImage was
\* called through a null m_sharedSurfaceTexture.
RECURSIVE CleanupLoop(_, _, _)
CleanupLoop(i, index, st) ==
    IF i = m_transferQueueSize THEN st
    ELSE
      LET item == st.q[index]
          next == (index + 1) % m_transferQueueSize
      IN
      IF item.status = "pendingDiscard"
      THEN
        LET gpu == item.uploadType = "GpuUpload"
            tile == item.savedTilePtr
            texture == item.savedTileTexturePtr
            disc == ShouldDiscard(st.back, tile, texture)
        IN CleanupLoop(i + 1, next,
             [q |-> [st.q EXCEPT ![index] =
                        [@ EXCEPT !.savedTilePtr = 0,
                                  !.savedTileTexturePtr = 0,
                                  !.status = "emptyItem"]],
              back |-> IF disc THEN DiscardBackTexture(st.back, tile)
                       ELSE st.back,
              texImage |-> st.texImage
                             + (IF gpu /\ m_sharedSurfaceTexture THEN 1 ELSE 0),
              discards |-> IF disc THEN Append(st.discards, tile)
                           ELSE st.discards,
              null |-> st.null \/ (gpu /\ ~m_sharedSurfaceTexture)])
      ELSE CleanupLoop(i + 1, next, st)

\* cleanupPendingDiscard() on the ring q.
cleanupPendingDiscard(q) ==
    CleanupLoop(0, getNextTransferQueueIndex,
                [q |-> q, back |-> backTexture,
                 texImage |-> 0, discards |-> <<>>, null |-> FALSE])

\* What a call that dies on a null dereference leaves: a dead process.
Crash(name) ==
    /\ crashed' = TRUE
    /\ op' = [NoOp(name) EXCEPT !.result = "crash"]
    /\ UNCHANGED <<m_transferQueueSize, queueVars, flagVars,
                   m_pureColorTileQueue, glVars, tileVars, procVars>>

\* setPendingDiscard() but for its loop over the ring: the pure colour queue
\* is cleared, the context is marked lost, and the condition is signalled.
SetPendingDiscard ==
    /\ m_pureColorTileQueue' = <<>>
    /\ m_hasGLContext' = FALSE
    /\ IF DiscardSignals(m_hasGLContext)
          THEN pc' \in Signal(pc)
          ELSE pc' = pc
    /\ wokenBy' = WokenBy("setPendingDiscard", pc, pc')

\* setPendingDiscardWithLock()
setPendingDiscardWithLock ==
    /\ ~crashed
    /\ m_transferQueue' = MarkPendingDiscard(m_transferQueue)
    /\ SetPendingDiscard
    /\ op' = [NoOp("setPendingDiscardWithLock") EXCEPT !.signal = m_hasGLContext]
    /\ UNCHANGED <<m_transferQueueSize, m_transferQueueIndex, m_emptyItemCount,
                   arrival, m_interruptedByRemovingOp, m_currentUploadType,
                   glVars, tileVars, req, crashed>>

\* emptyQueue(): setPendingDiscard, cleanupPendingDiscard, cleanupGLResources.
emptyQueue ==
    /\ ~crashed
    /\ LET c == cleanupPendingDiscard(MarkPendingDiscard(m_transferQueue)) IN
       \/ /\ c.null
          /\ Crash("emptyQueue")
       \/ /\ m_transferQueue' = c.q
          /\ arrival' = StillInRing(arrival, c.q)
          /\ backTexture' = c.back
          /\ SetPendingDiscard
          /\ cleanupGLResources
          /\ op' = [NoOp("emptyQueue") EXCEPT !.signal = m_hasGLContext,
                                              !.texImage = c.texImage,
                                              !.discards = Len(c.discards)]
          /\ UNCHANGED <<m_transferQueueSize, m_transferQueueIndex,
                         m_emptyItemCount, m_interruptedByRemovingOp,
                         m_currentUploadType, req, crashed>>

\* A setTextureUploadType(type) that leaves setPendingDiscard() out.
setTextureUploadTypeOnly(type) ==
    /\ ~crashed
    /\ m_currentUploadType' = type
    /\ op' = IF m_currentUploadType = type THEN Other
             ELSE NoOp("setTextureUploadType")
    /\ UNCHANGED <<m_transferQueueSize, queueVars, m_hasGLContext,
                   m_interruptedByRemovingOp, m_pureColorTileQueue, glVars,
                   tileVars, procVars, crashed>>

\* setTextureUploadType(type)
setTextureUploadType(type) ==
    /\ ~crashed
    /\ IF m_currentUploadType = type
          THEN /\ op' = Other
               /\ UNCHANGED <<m_transferQueue, m_pureColorTileQueue,
                              m_hasGLContext, m_currentUploadType, pc, wokenBy>>
          ELSE /\ m_transferQueue' = MarkPendingDiscard(m_transferQueue)
               /\ SetPendingDiscard
               /\ m_currentUploadType' = type
               /\ op' = [NoOp("setTextureUploadType") EXCEPT
                            !.signal = m_hasGLContext]
    /\ UNCHANGED <<m_transferQueueSize, m_transferQueueIndex, m_emptyItemCount,
                   arrival, m_interruptedByRemovingOp, glVars, tileVars, req,
                   crashed>>

\* interruptTransferQueue(interrupt)
interruptTransferQueue(interrupt) ==
    /\ ~crashed
    /\ m_interruptedByRemovingOp' = interrupt
    /\ IF interrupt THEN pc' \in Signal(pc) ELSE pc' = pc
    /\ wokenBy' = WokenBy("interruptTransferQueue", pc, pc')
    /\ op' = Other
    /\ UNCHANGED <<m_transferQueueSize, queueVars, m_hasGLContext,
                   m_currentUploadType, m_pureColorTileQueue, glVars, tileVars,
                   req, crashed>>

----------------------------------------------------------------------------
(* The drain. *)

\* updatePureColorTiles(): the textures that get setPureColor and
\* transferComplete, in order.
RECURSIVE updatePureColorTiles(_, _)
updatePureColorTiles(queue, back) ==
    IF queue = <<>> THEN <<>>
    ELSE LET data == Head(queue)
             rest == updatePureColorTiles(Tail(queue), back)
         IN IF data.status = "pendingBlit" /\ ~checkObsolete(data, back)
            THEN <<back[data.savedTilePtr]>> \o rest
            ELSE rest

\* A loop of updateDirtyTiles() that makes no iteration.
UpdateLoopNoPass(k, index, back, st) == st

\* The loop of updateDirtyTiles() from item `index`, `k` iterations done.
\* st = [q, texImage, blits, stale, order, null]; order: the indices of the
\* pendingBlit items in the order the loop takes them.
RECURSIVE UpdateLoop(_, _, _, _)
UpdateLoop(k, index, back, st) ==
    IF k = m_transferQueueSize THEN st
    ELSE
      LET item == st.q[index]
          next == (index + 1) % m_transferQueueSize
      IN
      IF item.status = "pendingBlit"
      THEN
        LET obsoleteTile == checkObsolete(item, back)
            gpu == item.uploadType = "GpuUpload"
        IN UpdateLoop(k + 1, next, back,
             [q |-> [st.q EXCEPT ![index] =
                        [@ EXCEPT !.savedTilePtr = 0, !.status = "emptyItem"]],
              texImage |-> st.texImage
                             + (IF gpu /\ m_sharedSurfaceTexture THEN 1 ELSE 0),
              blits |-> IF obsoleteTile THEN st.blits
                        ELSE Append(st.blits,
                                    [index |-> index,
                                     tile |-> item.savedTilePtr,
                                     texture |-> back[item.savedTilePtr],
                                     uploadType |-> item.uploadType]),
              stale |-> IF obsoleteTile THEN Append(st.stale, index)
                        ELSE st.stale,
              order |-> Append(st.order, index),
              null |-> st.null \/ (gpu /\ ~m_sharedSurfaceTexture)])
      ELSE UpdateLoop(k + 1, next, back, st)

\* An updateDirtyTiles() that leaves the empty item count as it finds it.
DrainedCountNotReset == m_emptyItemCount

\* The empty item count updateDirtyTiles() leaves.
DrainedCount == m_transferQueueSize

\* What updateDirtyTiles() does in the current state: the ring it leaves
\* (q), the tiles' back textures (back), the calls it makes, whether it
\* goes through a null m_sharedSurfaceTexture (null), and the items it takes
\* after cleanupPendingDiscard(), in the order it takes them (events): the
\* pure colour queue by updatePureColorTiles(), then the ring by the loop.
Drain ==
    LET c == cleanupPendingDiscard(m_transferQueue)
        u == UpdateLoop(0, getNextTransferQueueIndex, c.back,
                        [q |-> c.q, texImage |-> c.texImage, blits |-> <<>>,
                         stale |-> <<>>, order |-> <<>>, null |-> c.null])
    IN [q |-> u.q, back |-> c.back, texImage |-> u.texImage,
        blits |-> u.blits, stale |-> u.stale,
        pure |-> updatePureColorTiles(m_pureColorTileQueue, c.back),
        discards |-> c.discards, null |-> u.null,
        order |-> u.order,
        events |->
            [k \in 1..Len(m_pureColorTileQueue) |-> [queue |-> "pure", at |-> k]]
            \o [k \in 1..Len(u.order) |-> [queue |-> "ring", at |-> u.order[k]]]]

\* updateDirtyTiles()
updateDirtyTiles ==
    /\ ~crashed
    /\ \E d \in {Drain} :
       \/ /\ d.null
          /\ Crash("updateDirtyTiles")
       \/ /\ m_transferQueue' = d.q
          /\ arrival' = StillInRing(arrival, d.q)
          /\ backTexture' = d.back
          /\ m_hasGLContext' = TRUE
          /\ m_pureColorTileQueue' = <<>>
          /\ m_emptyItemCount' = DrainedCount
          /\ pc' \in Signal(pc)
          /\ wokenBy' = WokenBy("updateDirtyTiles", pc, pc')
          /\ op' = [NoOp("updateDirtyTiles") EXCEPT
                       !.signal = TRUE,
                       !.texImage = d.texImage,
                       !.blits = Len(d.blits),
                       !.stale = Len(d.stale),
                       !.pure = Len(d.pure),
                       !.discards = Len(d.discards)]
          /\ UNCHANGED <<m_transferQueueSize, m_transferQueueIndex,
                         m_interruptedByRemovingOp, m_currentUploadType,
                         glVars, req, crashed>>

----------------------------------------------------------------------------
(* Enqueueing. *)

\* addItemCommon(renderInfo, type, data)
addItemCommon(tile, type) ==
    [status |-> "pendingBlit", uploadType |-> type,
     savedTilePtr |-> tile, savedTileTexturePtr |-> backTexture[tile]]

\* An addItemInPureColorQueue(renderInfo) that goes through the test of
\* readyForUpdate().
addItemInPureColorQueueIfReady(tile) ==
    /\ ~crashed
    /\ m_hasGLContext /\ m_emptyItemCount > 0
    /\ Len(m_pureColorTileQueue) < MaxPureColor
    /\ m_pureColorTileQueue' =
           Append(m_pureColorTileQueue, addItemCommon(tile, "GpuUpload"))
    /\ op' = Other
    /\ UNCHANGED <<m_transferQueueSize, queueVars, flagVars, glVars, tileVars,
                   procVars, crashed>>

\* addItemInPureColorQueue(renderInfo)
addItemInPureColorQueue(tile) ==
    /\ ~crashed
    /\ Len(m_pureColorTileQueue) < MaxPureColor
    /\ m_pureColorTileQueue' =
           Append(m_pureColorTileQueue, addItemCommon(tile, "GpuUpload"))
    /\ op' = Other
    /\ UNCHANGED <<m_transferQueueSize, queueVars, flagVars, glVars, tileVars,
                   procVars, crashed>>

\* readyForUpdate() up to the wait without the first test of the context.
ReadyBeforeWaitNoContextTest ==
    IF m_emptyItemCount = 0
    THEN (IF m_interruptedByRemovingOp THEN "false" ELSE "wait")
    ELSE "true"

\* readyForUpdate() up to the wait without the test of the interruption.
ReadyBeforeWaitNoInterruptTest ==
    IF ~m_hasGLContext THEN "false"
    ELSE IF m_emptyItemCount = 0 THEN "wait" ELSE "true"

\* readyForUpdate() up to the wait: "false" and "true" are its result,
\* "wait" is a call that goes on to wait on the condition.
ReadyBeforeWait ==
    IF ~m_hasGLContext THEN "false"
    ELSE IF m_emptyItemCount = 0
         THEN (IF m_interruptedByRemovingOp THEN "false" ELSE "wait")
         ELSE "true"

\* readyForUpdate() without the test of the interruption after the wait.
ReadyAfterWaitNoInterruptTest == m_hasGLContext

\* readyForUpdate() from the return of the wait.
ReadyAfterWait ==
    IF m_interruptedByRemovingOp THEN FALSE
    ELSE m_hasGLContext

\* The slot addItemInTransferQueue() writes.
NextWriteIndex == (m_transferQueueIndex + 1) % m_transferQueueSize

\* addItemInTransferQueue(renderInfo, type, bitmap)
addItemInTransferQueue(tile, type) ==
    /\ m_emptyItemCount - 1 >= 0 - MaxOverrun
    /\ m_transferQueueIndex' = NextWriteIndex
    /\ m_transferQueue' =
           [m_transferQueue EXCEPT ![NextWriteIndex] = addItemCommon(tile, type)]
    /\ m_emptyItemCount' = m_emptyItemCount - 1
    /\ LET Older(i) == i # NextWriteIndex
       IN arrival' = Append(SelectSeq(arrival, Older), NextWriteIndex)

\* A failed call that does not tell the tile.
ReturnFalseSilently(o, tile) ==
    /\ op' = [o EXCEPT !.result = "false"]
    /\ UNCHANGED queueVars

\* tryUpdateQueueWithBitmap() returns false: updateQueueWithBitmap() tells the
\* tile that the transfer failed.  o is the record of the call so far.
ReturnFalse(o, tile) ==
    /\ op' = [o EXCEPT !.result = "false", !.fail = tile]
    /\ UNCHANGED queueVars

\* tryUpdateQueueWithBitmap() from the line after readyForUpdate() returned
\* true.
UpdateAfterReady(o, tile) ==
    LET currentUploadType == m_currentUploadType IN
    IF currentUploadType = "GpuUpload"
    THEN IF ~m_ANW
         THEN ReturnFalse(o, tile)
         ELSE \* GLUtils::updateSharedSurfaceTextureWithBitmap() fails or not
              \/ ReturnFalse(o, tile)
              \/ /\ addItemInTransferQueue(tile, currentUploadType)
                 /\ op' = [o EXCEPT !.result = "true"]
    ELSE /\ addItemInTransferQueue(tile, currentUploadType)
         /\ op' = [o EXCEPT !.result = "true"]

\* updateQueueWithBitmap(renderInfo, bitmap) by producer p for `tile`, up to
\* its return or to the wait of readyForUpdate().
updateQueueWithBitmap(p, tile) ==
    /\ ~crashed
    /\ pc[p] = "idle"
    /\ LET o == NoOp("updateQueueWithBitmap")
           ready == ReadyBeforeWait
       IN CASE ready = "false" ->
                  /\ ReturnFalse(o, tile)
                  /\ UNCHANGED procVars
            [] ready = "wait" ->
                  /\ pc' = [pc EXCEPT ![p] = "waiting"]
                  /\ req' = [req EXCEPT ![p] = tile]
                  /\ op' = [o EXCEPT !.result = "wait"]
                  /\ UNCHANGED <<queueVars, wokenBy>>
            [] ready = "true" ->
                  /\ UpdateAfterReady(o, tile)
                  /\ UNCHANGED procVars
    /\ UNCHANGED <<m_transferQueueSize, flagVars, m_pureColorTileQueue, glVars,
                   tileVars, crashed>>

\* The rest of updateQueueWithBitmap() for a producer that was signalled and
\* has taken the mutex again.
resumeUpdateQueueWithBitmap(p) ==
    /\ ~crashed
    /\ pc[p] = "woken"
    /\ LET o == [NoOp("updateQueueWithBitmap") EXCEPT !.wake = wokenBy[p]]
       IN IF ReadyAfterWait
          THEN UpdateAfterReady(o, req[p])
          ELSE ReturnFalse(o, req[p])
    /\ pc' = [pc EXCEPT ![p] = "idle"]
    /\ req' = [req EXCEPT ![p] = 0]
    /\ wokenBy' = [wokenBy EXCEPT ![p] = "none"]
    /\ UNCHANGED <<m_transferQueueSize, flagVars, m_pureColorTileQueue, glVars,
                   tileVars, crashed>>

----------------------------------------------------------------------------

Next ==
    \/ \E p \in Producers, t \in Tiles : updateQueueWithBitmap(p, t)
    \/ \E p \in Producers : resumeUpdateQueueWithBitmap(p)
    \/ \E t \in Tiles : addItemInPureColorQueue(t)
    \/ updateDirtyTiles
    \/ setPendingDiscardWithLock
    \/ emptyQueue
    \/ \E type \in UploadTypes : setTextureUploadType(type)
    \/ \E b \in BOOLEAN : interruptTransferQueue(b)
    \/ initGLResources
    \/ \E t \in Tiles, x \in Textures : TileAcquireTexture(t, x)
    \/ \E t \in Tiles : TileDiscardTexture(t)

Spec == Init /\ [][Next]_vars

----------------------------------------------------------------------------
(* Properties. *)

Status(i) == m_transferQueue[i].status
Range(s) == {s[k] : k \in 1..Len(s)}
NotEmptySlots == {i \in Indices : Status(i) # "emptyItem"}

\* The last step was a call of updateQueueWithBitmap that enqueued.
Enqueued(o) == o.name = "updateQueueWithBitmap" /\ o.result = "true"
\* The last step was a completed updateDirtyTiles.
Drained(o) == o.name = "updateDirtyTiles" /\ o.result # "crash"
\* The last step was a completed call that ran setPendingDiscard.
Discarded(o) ==
    /\ o.name \in {"setPendingDiscardWithLock", "emptyQueue", "setTextureUploadType"}
    /\ o.result # "crash"
\* The last step was the rest of a producer's call, after its wait.
Resumed(o) == o.name = "updateQueueWithBitmap" /\ o.wake # "none"

\* C1: whenever readyForUpdate returns true to a producer and the call goes
\* on to enqueue, at that moment m_emptyItemCount > 0, some ring slot is
\* Empty and the GL context is live.
C1_ReadyMeansEmptySlot ==
    [][Enqueued(op') =>
          /\ m_emptyItemCount > 0
          /\ \E i \in Indices : Status(i) = "emptyItem"
          /\ m_hasGLContext]_vars

\* C2: a ring slot only goes Empty -> PendingUpload -> Empty or
\* Empty -> PendingUpload -> PendingDiscard -> Empty, and an enqueue only
\* writes into a slot that is Empty.
C2_SlotTransitions ==
    [][/\ \A i \in Indices :
             \/ Status(i)' = Status(i)
             \/ <<Status(i), Status(i)'>> \in
                   {<<"emptyItem", "pendingBlit">>,
                    <<"pendingBlit", "emptyItem">>,
                    <<"pendingBlit", "pendingDiscard">>,
                    <<"pendingDiscard", "emptyItem">>}
       /\ Enqueued(op') => Status(NextWriteIndex) = "emptyItem"]_vars

\* C3: m_emptyItemCount plus the number of slots that are PendingUpload or
\* PendingDiscard is the ring capacity, in every state.
C3_CountPlusPendingIsCapacity ==
    m_emptyItemCount + Cardinality(NotEmptySlots) = m_transferQueueSize

\* C4: the saved tile and the saved texture of a slot do not change from the
\* enqueue that set them until the slot is Empty again.
C4_SavedHandlesStable ==
    [][\A i \in Indices :
          (Status(i) # "emptyItem" /\ Status(i)' # "emptyItem") =>
              /\ m_transferQueue'[i].savedTilePtr = m_transferQueue[i].savedTilePtr
              /\ m_transferQueue'[i].savedTileTexturePtr
                    = m_transferQueue[i].savedTileTexturePtr]_vars

\* A signal woke exactly one of the producers that were waiting (nobody when
\* nobody waited), on behalf of `name`.
WokeOne(name) ==
    IF Waiting(pc) = {} THEN pc' = pc
    ELSE \E w \in Waiting(pc) :
            /\ pc' = [pc EXCEPT ![w] = "woken"]
            /\ wokenBy'[w] = name

\* C5 (as stated): every producer blocked on the full ring is woken by the
\* drain that completes, and the enqueue of a producer woken by a drain
\* succeeds.
C5_DrainWakesBlockedProducer ==
    [][/\ Drained(op') => \A p \in Waiting(pc) : pc'[p] = "woken"
       /\ (Resumed(op') /\ op'.wake = "updateDirtyTiles") => op'.result = "true"]_vars

\* C5 (amended): a call that finds the ring full (count 0) with the context
\* live and no interruption blocks and leaves the ring alone; a blocked
\* producer stays blocked, adding nothing, until a signal of a drain, of a
\* discard or of an interruption wakes it; a completed drain wakes exactly
\* one of the blocked producers; the producer it woke enqueues without a
\* further drain if, when it resumes, no interruption is set and the context
\* is live (and, for GpuUpload, the native window exists), and not if an
\* interruption is set or the context is lost by then.
C5_BlockedUntilSignalled ==
    [][/\ \A p \in Producers :
             /\ (pc[p] = "idle" /\ pc'[p] # "idle") =>
                   /\ pc'[p] = "waiting"
                   /\ m_emptyItemCount = 0
                   /\ m_hasGLContext /\ ~m_interruptedByRemovingOp
                   /\ UNCHANGED queueVars
             /\ (pc[p] = "waiting" /\ pc'[p] # "waiting") =>
                   /\ pc'[p] = "woken"
                   /\ wokenBy'[p] \in {"updateDirtyTiles", "setPendingDiscard",
                                       "interruptTransferQueue"}
                   /\ op'.name # "updateQueueWithBitmap"
       /\ (op'.name = "updateQueueWithBitmap" /\ op'.wake = "none"
             /\ m_emptyItemCount = 0 /\ m_hasGLContext
             /\ ~m_interruptedByRemovingOp) =>
                (op'.result = "wait" /\ UNCHANGED queueVars)
       /\ Drained(op') => WokeOne("updateDirtyTiles")
       /\ (Resumed(op') /\ op'.wake = "updateDirtyTiles") =>
             /\ op'.result = "true" =>
                   (~m_interruptedByRemovingOp /\ m_hasGLContext)
             /\ (~m_interruptedByRemovingOp /\ m_hasGLContext
                   /\ m_currentUploadType = "CpuUpload") => op'.result = "true"
             /\ (m_interruptedByRemovingOp \/ ~m_hasGLContext) =>
                   (op'.result = "false" /\ UNCHANGED queueVars)]_vars

\* C5: a producer that a drain had woken has enqueued.
C5_Witness ==
    Resumed(op) /\ op.wake = "updateDirtyTiles" /\ op.result = "true"

\* C6 (as stated): a producer blocked while setPendingDiscard runs is woken,
\* and its call returns false.
C6_DiscardUnblocksWithFalse ==
    [][/\ Discarded(op') => \A p \in Waiting(pc) : pc'[p] = "woken"
       /\ (Resumed(op') /\ op'.wake = "setPendingDiscard") => op'.result = "false"]_vars

\* C6 (amended): setPendingDiscard, when the context was live, wakes exactly
\* one of the blocked producers (none when the context was already lost)
\* and leaves the context lost; only updateDirtyTiles makes the context live
\* again; the call of a producer that a discard woke returns false, nothing
\* enqueued, whenever the context is still lost (or an interruption is set)
\* as it resumes, and can return true only when a drain has made the context
\* live in between.
C6_DiscardWakesOne ==
    [][/\ Discarded(op') =>
             /\ ~m_hasGLContext'
             /\ IF m_hasGLContext THEN WokeOne("setPendingDiscard") ELSE pc' = pc
       /\ (~m_hasGLContext /\ m_hasGLContext') => Drained(op')
       /\ (Resumed(op') /\ op'.wake = "setPendingDiscard") =>
             /\ (~m_hasGLContext \/ m_interruptedByRemovingOp) =>
                   (op'.result = "false" /\ UNCHANGED queueVars)
             /\ op'.result = "true" => m_hasGLContext]_vars

\* C6: a producer that a discard had woken has returned false.
C6_Witness ==
    Resumed(op) /\ op.wake = "setPendingDiscard" /\ op.result = "false"

\* C7: a setPendingDiscard that finds the context live leaves no producer
\* waiting in readyForUpdate.
C7_DiscardUnblocksAll ==
    [][(Discarded(op') /\ m_hasGLContext) => Waiting(pc') = {}]_vars

\* C8: after setPendingDiscard no ring slot is PendingUpload, each slot that
\* was PendingUpload is PendingDiscard, the pure colour queue is empty and
\* the context is marked lost; the slots that were Empty or PendingDiscard,
\* every slot's upload type, saved tile and saved texture, the write index
\* and the empty item count are as before.
C8_SetPendingDiscardEffect ==
    [][(op'.name \in {"setPendingDiscardWithLock", "setTextureUploadType"}) =>
          /\ \A i \in Indices :
                /\ Status(i)' # "pendingBlit"
                /\ Status(i) = "pendingBlit" => Status(i)' = "pendingDiscard"
                /\ Status(i) # "pendingBlit" => Status(i)' = Status(i)
                /\ m_transferQueue'[i].uploadType = m_transferQueue[i].uploadType
                /\ m_transferQueue'[i].savedTilePtr = m_transferQueue[i].savedTilePtr
                /\ m_transferQueue'[i].savedTileTexturePtr
                      = m_transferQueue[i].savedTileTexturePtr
          /\ m_pureColorTileQueue' = <<>>
          /\ ~m_hasGLContext'
          /\ UNCHANGED <<m_transferQueueIndex, m_emptyItemCount>>]_vars

\* C8: setPendingDiscard has turned a PendingUpload slot into PendingDiscard
\* next to a slot that stayed Empty.
C8_Witness ==
    /\ op.name = "setPendingDiscardWithLock"
    /\ \E i \in Indices : Status(i) = "pendingDiscard"
    /\ \E i \in Indices : Status(i) = "emptyItem"

\* C9: right after a completed updateDirtyTiles every ring slot is Empty,
\* the pure colour queue is empty, the empty item count is the ring size and
\* the context is live, and a second updateDirtyTiles would upload to no
\* texture, call updateTexImage zero times and make no transferComplete and
\* no discardBackTexture call.
C9_DrainLeavesNothingToDo ==
    Drained(op) =>
        /\ \A i \in Indices : Status(i) = "emptyItem"
        /\ m_pureColorTileQueue = <<>>
        /\ m_emptyItemCount = m_transferQueueSize
        /\ m_hasGLContext
        /\ Drain.blits = <<>>
        /\ Drain.texImage = 0
        /\ Drain.pure = <<>>
        /\ Drain.discards = <<>>
        /\ Drain.stale = <<>>

\* C9: a drain has completed that uploaded a ring item, advanced the shared
\* surface and applied a pure colour item.
C9_Witness ==
    Drained(op) /\ op.blits > 0 /\ op.texImage > 0 /\ op.pure > 0

\* The ring indices updateDirtyTiles uploads from, in the current state.
BlitIndices == {b.index : b \in Range(Drain.blits)}

\* C10 (as stated): the drain drops a PendingUpload slot as obsolete exactly
\* when its saved tile is null or the tile's back texture differs from the
\* saved texture.
C10_ObsoleteIffTextureDiffers ==
    [][Drained(op') =>
          \A i \in Indices :
             Status(i) = "pendingBlit" =>
                LET data == m_transferQueue[i]
                    differs ==
                       \/ data.savedTilePtr = 0
                       \/ backTexture[data.savedTilePtr] # data.savedTileTexturePtr
                IN (i \in Range(Drain.stale)) <=> differs]_vars

\* C10 (amended): the drain drops a PendingUpload slot as obsolete exactly
\* when its saved tile is null, or the tile has no back texture, or the
\* tile's back texture differs from the saved texture; an obsolete slot
\* becomes Empty with no upload and no transferComplete, every other
\* PendingUpload slot becomes Empty and is uploaded to the tile's back
\* texture, and the drain reports no failure to a tile.
C10_ObsoleteDropped ==
    [][Drained(op') =>
          /\ op'.fail = 0
          /\ op'.stale = Len(Drain.stale)
          /\ op'.blits = Len(Drain.blits)
          /\ \A i \in Indices :
                Status(i) = "pendingBlit" =>
                   LET data == m_transferQueue[i]
                       obsolete ==
                          \/ data.savedTilePtr = 0
                          \/ backTexture[data.savedTilePtr] = 0
                          \/ backTexture[data.savedTilePtr]
                                # data.savedTileTexturePtr
                   IN /\ Status(i)' = "emptyItem"
                      /\ (i \in Range(Drain.stale)) <=> obsolete
                      /\ (i \in BlitIndices) <=> ~obsolete
                      /\ \A b \in Range(Drain.blits) :
                            b.index = i =>
                               /\ b.tile = data.savedTilePtr
                               /\ b.texture = data.savedTileTexturePtr
                               /\ b.texture # 0]_vars

\* C10: a drain has dropped an obsolete slot and uploaded another one.
C10_Witness ==
    Drained(op) /\ op.stale > 0 /\ op.blits > 0

\* C11: within one drain the PendingUpload ring items are taken in the order
\* in which they were enqueued, the oldest first, whatever the fill level
\* and the write index, and every pure colour queue entry is taken before
\* any ring item.
C11_DrainInArrivalOrder ==
    [][Drained(op') =>
          LET d == Drain
              PendingBlit(i) == Status(i) = "pendingBlit"
          IN /\ d.order = SelectSeq(arrival, PendingBlit)
             /\ Range(d.order) = {i \in Indices : PendingBlit(i)}
             /\ Len(d.events) = Len(m_pureColorTileQueue) + Len(d.order)
             /\ \A a, b \in 1..Len(d.events) :
                   (d.events[a].queue = "pure" /\ d.events[b].queue = "ring")
                      => a < b]_vars

\* C11: a drain has taken two ring items, the older one at index 0 and the
\* newer at the write index 1, and a pure colour entry.
C11_Witness ==
    /\ Drained(op)
    /\ op.blits + op.stale = 2
    /\ op.pure > 0
    /\ m_transferQueueIndex = 1

\* The number of ring items (not emptyItem) of ring q that are GpuUpload.
GpuItems(q) ==
    Cardinality({i \in DOMAIN q :
                    q[i].status # "emptyItem" /\ q[i].uploadType = "GpuUpload"})

\* C12: updateTexImage is called exactly once for every successful GpuUpload
\* enqueue and never for a CpuUpload item: in every step, the GpuUpload
\* items in the ring grow by the successful GpuUpload enqueue of the step
\* and shrink by the updateTexImage calls of the step, so that the calls
\* equal the enqueues whenever the ring is all Empty.
C12_OneAdvancePerGpuEnqueue ==
    [][GpuItems(m_transferQueue') - GpuItems(m_transferQueue)
          = (IF Enqueued(op') /\ m_currentUploadType = "GpuUpload" THEN 1 ELSE 0)
            - op'.texImage]_vars

\* C12 without the steps of C1/C2 and C23: the same balance over the steps
\* that neither enqueue into a slot that is not Empty nor go through a null
\* m_sharedSurfaceTexture.
C12_AdvanceBalanceOtherwise ==
    [][(/\ Enqueued(op') => Status(NextWriteIndex) = "emptyItem"
        /\ ~Drain.null
        /\ ~cleanupPendingDiscard(MarkPendingDiscard(m_transferQueue)).null) =>
          GpuItems(m_transferQueue') - GpuItems(m_transferQueue)
             = (IF Enqueued(op') /\ m_currentUploadType = "GpuUpload" THEN 1 ELSE 0)
               - op'.texImage]_vars

\* C13: a call of updateQueueWithBitmap whose tryUpdateQueueWithBitmap
\* returns false has changed no ring slot, not the write index and not the
\* empty item count, has called backTextureTransferFail once, on the tile
\* of the request, and has returned (no retry); a call that enqueued has
\* not called it; false is returned exactly when readiness is denied or,
\* under GpuUpload, when m_ANW is null or the external write fails.
C13_FailureLeavesQueueAlone ==
    [][(op'.name = "updateQueueWithBitmap" /\ op'.result \in {"true", "false"}) =>
          LET denied == IF Resumed(op')
                        THEN m_interruptedByRemovingOp \/ ~m_hasGLContext
                        ELSE \/ ~m_hasGLContext
                             \/ m_emptyItemCount = 0 /\ m_interruptedByRemovingOp
          IN /\ op'.result = "false" =>
                   /\ UNCHANGED queueVars
                   /\ op'.fail \in Tiles
                   /\ \A p \in Producers : pc[p] = "woken" /\ pc'[p] = "idle"
                                                => op'.fail = req[p]
                   /\ denied \/ m_currentUploadType = "GpuUpload"
                   /\ \A p \in Producers : pc'[p] = pc[p] \/ pc'[p] = "idle"
             /\ op'.result = "true" => (op'.fail = 0 /\ ~denied)
             /\ denied => op'.result = "false"
             /\ (m_currentUploadType = "GpuUpload" /\ ~m_ANW) => op'.result = "false"
             /\ (~denied /\ m_currentUploadType = "CpuUpload") => op'.result = "true"]_vars

\* C13: a GpuUpload call that was ready and had its window has returned
\* false (the external write failed) and told the tile.
C13_Witness ==
    /\ op.name = "updateQueueWithBitmap" /\ op.result = "false" /\ op.fail # 0
    /\ m_currentUploadType = "GpuUpload" /\ m_ANW
    /\ m_hasGLContext /\ ~m_interruptedByRemovingOp /\ m_emptyItemCount > 0

\* The tiles that cleanupPendingDiscard() on ring q tells to discard their
\* back texture.
DiscardedTiles(q) == Range(cleanupPendingDiscard(q).discards)

\* C14 (as stated): a setTextureUploadType that changes the type leaves no
\* slot PendingUpload; no enqueue succeeds while a slot is PendingDiscard;
\* and the drain that comes first makes every PendingDiscard slot Empty and
\* calls discardBackTexture on the tile of every one of them.
C14_SwitchDiscardsEverySlot ==
    [][/\ op'.name = "setTextureUploadType" =>
             /\ m_currentUploadType' # m_currentUploadType
             /\ \A i \in Indices : Status(i)' # "pendingBlit"
       /\ Enqueued(op') => \A i \in Indices : Status(i) # "pendingDiscard"
       /\ Drained(op') =>
             \A i \in Indices :
                Status(i) = "pendingDiscard" =>
                   /\ Status(i)' = "emptyItem"
                   /\ m_transferQueue[i].savedTilePtr
                         \in DiscardedTiles(m_transferQueue)]_vars

\* C14 (amended): a setTextureUploadType that changes the type leaves no
\* slot PendingUpload, the slots that were PendingUpload being
\* PendingDiscard, and marks the context lost; no enqueue succeeds while a
\* slot is PendingDiscard, and an enqueue writes an item of the current
\* type; the drain that comes first makes every PendingDiscard slot Empty
\* and calls discardBackTexture, once, on exactly the tiles that still own
\* the texture saved in one of those slots; such a tile has no back texture
\* afterwards.
C14_SwitchDiscardsOwnedSlots ==
    [][/\ op'.name = "setTextureUploadType" =>
             /\ m_currentUploadType' # m_currentUploadType
             /\ ~m_hasGLContext'
             /\ \A i \in Indices :
                   /\ Status(i)' # "pendingBlit"
                   /\ Status(i) = "pendingBlit" => Status(i)' = "pendingDiscard"
       /\ Enqueued(op') =>
             /\ \A i \in Indices : Status(i) # "pendingDiscard"
             /\ m_transferQueue'[NextWriteIndex].uploadType = m_currentUploadType
       /\ Drained(op') =>
             /\ \A i \in Indices :
                   Status(i) = "pendingDiscard" => Status(i)' = "emptyItem"
             /\ \A t \in Tiles :
                   (t \in DiscardedTiles(m_transferQueue)) <=>
                      \E i \in Indices :
                         /\ Status(i) = "pendingDiscard"
                         /\ m_transferQueue[i].savedTilePtr = t
                         /\ m_transferQueue[i].savedTileTexturePtr # 0
                         /\ backTexture[t] = m_transferQueue[i].savedTileTexturePtr
             /\ op'.discards = Cardinality(DiscardedTiles(m_transferQueue))
             /\ \A t \in DiscardedTiles(m_transferQueue) : backTexture'[t] = 0]_vars

\* C14: after a change of the upload type a drain has discarded the back
\* texture of the tile of a slot filled under the old type.
C14_Witness ==
    /\ Drained(op)
    /\ op.discards > 0
    /\ \A i \in Indices : m_transferQueue[i].uploadType # m_currentUploadType

\* Nothing of the GL resources g is held.
Released(g) == ~g.id /\ ~g.surface /\ ~g.anw /\ ~g.fbo

\* C15: initGLResources twice leaves what once leaves, cleanupGLResources
\* and emptyQueue twice leave what once leaves, and after cleanupGLResources
\* or emptyQueue the surface texture, its texture id, the native window and
\* the framebuffer are all released, so that initGLResources creates all of
\* them again.
C15_CreateDestroyIdempotent ==
    [][/\ InitGL(InitGL(GLResources)) = InitGL(GLResources)
       /\ CleanupGL(CleanupGL(GLResources)) = CleanupGL(GLResources)
       /\ Released(CleanupGL(GLResources))
       /\ InitGL(CleanupGL(GLResources))
             = [id |-> TRUE, surface |-> TRUE, anw |-> TRUE, fbo |-> TRUE]
       /\ (op'.name = "emptyQueue" /\ op'.result # "crash") => Released(GLResources')
       /\ (op.name = "emptyQueue" /\ op'.name = "emptyQueue"
             /\ op.result # "crash" /\ op'.result # "crash") =>
                UNCHANGED <<m_transferQueueSize, queueVars, flagVars,
                            m_pureColorTileQueue, glVars, tileVars, procVars,
                            crashed>>]_vars

\* C15 but for the release of the native window: the same, with m_ANW
\* staying as it is through cleanupGLResources and emptyQueue.
C15_IdempotentButForANW ==
    [][/\ InitGL(InitGL(GLResources)) = InitGL(GLResources)
       /\ CleanupGL(CleanupGL(GLResources)) = CleanupGL(GLResources)
       /\ Released([CleanupGL(GLResources) EXCEPT !.anw = FALSE])
       /\ CleanupGL(GLResources).anw = m_ANW
       /\ InitGL(CleanupGL(GLResources))
             = [id |-> TRUE, surface |-> TRUE, anw |-> TRUE, fbo |-> TRUE]
       /\ (op'.name = "emptyQueue" /\ op'.result # "crash") =>
             (Released([GLResources' EXCEPT !.anw = FALSE]) /\ m_ANW' = m_ANW)
       /\ (op.name = "emptyQueue" /\ op'.name = "emptyQueue"
             /\ op.result # "crash" /\ op'.result # "crash") =>
                UNCHANGED <<m_transferQueueSize, queueVars, flagVars,
                            m_pureColorTileQueue, glVars, tileVars, procVars,
                            crashed>>]_vars

\* A call of updateQueueWithBitmap that has not waited finds the ring full
\* with the interruption set.
FullAndInterrupted(o) ==
    /\ o.name = "updateQueueWithBitmap" /\ o.wake = "none"
    /\ m_emptyItemCount = 0 /\ m_interruptedByRemovingOp

\* C16 (as stated): a producer that finds the ring full with the
\* interruption set returns false without waiting; a producer woken by
\* interruptTransferQueue(true) returns false, nothing enqueued, whatever
\* happens before it resumes; interruptTransferQueue(false) wakes nobody.
C16_InterruptAlwaysObserved ==
    [][/\ FullAndInterrupted(op') =>
             (op'.result = "false" /\ pc' = pc /\ UNCHANGED queueVars)
       /\ (Resumed(op') /\ op'.wake = "interruptTransferQueue") =>
             (op'.result = "false" /\ UNCHANGED queueVars)
       /\ (op'.name = "other" /\ ~m_interruptedByRemovingOp') => pc' = pc]_vars

\* C16 (amended): a producer that finds the ring full with the interruption
\* set returns false without waiting; a step that sets the interruption
\* wakes exactly one waiting producer, and a producer is woken on behalf of
\* interruptTransferQueue only by a step that leaves the interruption set;
\* the producer it woke returns false, nothing enqueued, if the
\* interruption is still set (or the context lost) when it resumes, and
\* enqueues only if the interruption has been cleared in between;
\* interruptTransferQueue(false) wakes nobody.
C16_InterruptObservedWhileSet ==
    [][/\ FullAndInterrupted(op') =>
             (op'.result = "false" /\ pc' = pc /\ UNCHANGED queueVars)
       /\ (~m_interruptedByRemovingOp /\ m_interruptedByRemovingOp') =>
             WokeOne("interruptTransferQueue")
       /\ \A p \in Producers :
             (pc[p] = "waiting" /\ wokenBy'[p] = "interruptTransferQueue") =>
                (pc'[p] = "woken" /\ m_interruptedByRemovingOp' /\ op'.name = "other")
       /\ (Resumed(op') /\ op'.wake = "interruptTransferQueue") =>
             /\ (m_interruptedByRemovingOp \/ ~m_hasGLContext) =>
                   (op'.result = "false" /\ UNCHANGED queueVars)
             /\ op'.result = "true" =>
                   (~m_interruptedByRemovingOp /\ m_hasGLContext)
       /\ (op'.name = "other" /\ ~m_interruptedByRemovingOp') => pc' = pc]_vars

\* C16: a producer woken by an interruption has resumed with the context
\* live and the interruption still set, and has returned false.
C16_Witness ==
    /\ Resumed(op) /\ op.wake = "interruptTransferQueue" /\ op.result = "false"
    /\ m_hasGLContext /\ m_interruptedByRemovingOp

\* C17: setPendingDiscard signals the condition once if the context was live
\* just before the call and not at all if it was already lost, and leaves
\* the context lost: of several calls with no drain in between only the
\* first one signals, and the later ones wake nobody.
C17_DiscardSignalsOnEdge ==
    [][Discarded(op') =>
          /\ op'.signal = m_hasGLContext
          /\ ~m_hasGLContext'
          /\ IF m_hasGLContext
                THEN WokeOne("setPendingDiscard")
                ELSE pc' = pc /\ wokenBy' = wokenBy
          /\ Discarded(op) => (~op'.signal /\ pc' = pc)]_vars

\* C17: a setPendingDiscard has found the context already lost and a
\* producer waiting, and has not signalled.
C17_Witness ==
    Discarded(op) /\ ~op.signal /\ Waiting(pc) # {}

\* cleanupPendingDiscard() on ring q does what C18 says: every
\* pendingDiscard item is emptyItem with its tile and texture cleared, every
\* other item is as it was, and discardBackTexture is called, once, on
\* exactly the tiles that own the texture saved with them in a
\* pendingDiscard item; those tiles lose their back texture, the other
\* tiles keep theirs.
CleanupAsClaimed(q) ==
    LET c == cleanupPendingDiscard(q)
        Bound(t) == \E i \in DOMAIN q :
                       /\ q[i].status = "pendingDiscard"
                       /\ q[i].savedTilePtr = t
                       /\ q[i].savedTileTexturePtr # 0
                       /\ Owner(backTexture, q[i].savedTileTexturePtr) = t
    IN /\ \A i \in DOMAIN q :
             IF q[i].status = "pendingDiscard"
             THEN c.q[i] = [status |-> "emptyItem", uploadType |-> q[i].uploadType,
                            savedTilePtr |-> 0, savedTileTexturePtr |-> 0]
             ELSE c.q[i] = q[i]
       /\ \A t \in Tiles : (t \in Range(c.discards)) <=> Bound(t)
       /\ Len(c.discards) = Cardinality(Range(c.discards))
       /\ \A t \in Tiles : c.back[t] = IF Bound(t) THEN 0 ELSE backTexture[t]

\* C18: cleanupPendingDiscard, in every drain and in emptyQueue, makes
\* every PendingDiscard slot Empty with its tile and its texture cleared,
\* calls discardBackTexture on a slot's tile if and only if the tile still
\* owns the slot's texture, and leaves the PendingUpload and the Empty slots
\* as they are.
C18_CleanupPendingDiscardEffect ==
    [][/\ Drained(op') =>
             /\ CleanupAsClaimed(m_transferQueue)
             /\ op'.discards = Len(cleanupPendingDiscard(m_transferQueue).discards)
             /\ backTexture' = cleanupPendingDiscard(m_transferQueue).back
       /\ (op'.name = "emptyQueue" /\ op'.result # "crash") =>
             LET q == MarkPendingDiscard(m_transferQueue) IN
             /\ CleanupAsClaimed(q)
             /\ m_transferQueue' = cleanupPendingDiscard(q).q
             /\ op'.discards = Len(cleanupPendingDiscard(q).discards)
             /\ backTexture' = cleanupPendingDiscard(q).back]_vars

\* C18: an emptyQueue has resolved two items, telling a tile to discard its
\* back texture for one and not for the other.
C18_Witness ==
    /\ op.name = "emptyQueue" /\ op.result # "crash"
    /\ op.discards = 1
    /\ m_transferQueueSize = 2 /\ m_emptyItemCount = 0

\* An updateDirtyTiles() that returns.
updateDirtyTilesReturns == updateDirtyTiles /\ ~crashed'

AddSomePureColorItem == \E t \in Tiles : addItemInPureColorQueue(t)

\* C20: addItemInPureColorQueue can run in every state of a live process,
\* whatever the empty item count, the context and the interruption are (it
\* does not wait); the pure colour queue grows only by one entry at a time,
\* appended at its end, PendingUpload, with a tile and the back texture the
\* tile has at that moment; and the step that appends leaves every ring
\* slot, the write index, the empty item count, the context and
\* interruption flags and every producer as they are.
C20_PureColorBypassesRing ==
    [][/\ (~crashed /\ Len(m_pureColorTileQueue) < MaxPureColor) =>
             ENABLED AddSomePureColorItem
       /\ Len(m_pureColorTileQueue') > Len(m_pureColorTileQueue) =>
             /\ \E t \in Tiles :
                   m_pureColorTileQueue' =
                      Append(m_pureColorTileQueue,
                             [status |-> "pendingBlit", uploadType |-> "GpuUpload",
                              savedTilePtr |-> t,
                              savedTileTexturePtr |-> backTexture[t]])
             /\ UNCHANGED <<queueVars, flagVars, procVars, glVars, tileVars,
                            m_transferQueueSize>>]_vars

\* C20: the pure colour queue holds an entry that was appended while the
\* context was lost and the empty item count was 0.
C20_Witness ==
    /\ Len(m_pureColorTileQueue) > 0
    /\ ~m_hasGLContext
    /\ m_emptyItemCount = 0

\* Some ring slot is PendingDiscard.
SomePendingDiscard == \E i \in Indices : Status(i) = "pendingDiscard"

\* C21: setPendingDiscard leaves the context lost, and only a drain makes
\* it live again; while the context is lost every call of
\* updateQueueWithBitmap, whether it starts or resumes from its wait,
\* returns false without waiting and with the ring, the write index and the
\* count as they were; a slot is PendingDiscard only while the context is
\* lost; so no enqueue writes a ring slot while a slot is PendingDiscard
\* or the context is lost.
C21_NothingEnqueuedUntilDrain ==
    [][/\ Discarded(op') => ~m_hasGLContext'
       /\ (~m_hasGLContext /\ m_hasGLContext') => Drained(op')
       /\ SomePendingDiscard => ~m_hasGLContext
       /\ (op'.name = "updateQueueWithBitmap" /\ ~m_hasGLContext) =>
             /\ op'.result = "false"
             /\ UNCHANGED queueVars
             /\ Waiting(pc') \subseteq Waiting(pc)
       /\ Enqueued(op') => (m_hasGLContext /\ ~SomePendingDiscard)
       /\ \A i \in Indices :
             (Status(i) # "pendingBlit" /\ Status(i)' = "pendingBlit") =>
                (Enqueued(op') /\ m_hasGLContext /\ ~SomePendingDiscard)]_vars

\* C21: between a setPendingDiscard and the drain, with a slot
\* PendingDiscard and another one free, a call of updateQueueWithBitmap has
\* returned false.
C21_Witness ==
    /\ op.name = "updateQueueWithBitmap" /\ op.result = "false"
    /\ ~m_hasGLContext /\ ~m_interruptedByRemovingOp
    /\ SomePendingDiscard
    /\ m_emptyItemCount > 0

\* C22: in every state every ring slot that is PendingUpload has the upload
\* type that is the queue's current one.
C22_PendingUploadsOfCurrentType ==
    \A i \in Indices :
       Status(i) = "pendingBlit" =>
          m_transferQueue[i].uploadType = m_currentUploadType

\* C22: after a change of the upload type a slot is PendingUpload under the
\* new type next to a slot that still carries the old one.
C22_Witness ==
    /\ \E i \in Indices : Status(i) = "pendingBlit"
    /\ \E j \in Indices : /\ Status(j) # "pendingBlit"
                           /\ m_transferQueue[j].uploadType # m_currentUploadType

\* C23: no updateDirtyTiles and no emptyQueue calls updateTexImage for a
\* GpuUpload item while m_sharedSurfaceTexture is null.
C23_AdvanceOnAllocatedSurface ==
    [][/\ op'.name = "updateDirtyTiles" => ~Drain.null
       /\ op'.name = "emptyQueue" =>
             ~cleanupPendingDiscard(MarkPendingDiscard(m_transferQueue)).null]_vars

====
